---- MODULE Spec2Model ----
(***************************************************************************)
(* Model of src/rngs/thread.rs: the thread-local random number generator.  *)
(*                                                                         *)
(* Every thread owns one lazily initialised slot THREAD_RNG_KEY holding a  *)
(* ReseedingRng<Core, OsRng>.  A ThreadRng handle is a stateless marker;   *)
(* each of its four generation methods looks the calling thread's slot up  *)
(* (LocalKey::with / LocalKey::try_with) and forwards to the wrapper.      *)
(* The test module adds a second thread-local, ZOMBIE, whose destructor    *)
(* makes a generation call during thread teardown.                         *)
(*                                                                         *)
(* A call is modelled in three steps of its thread: Call (the method is    *)
(* entered), Lookup (the slot is located, lazily initialised, or found     *)
(* destroyed) and Closure (the closure runs on the wrapper and the method  *)
(* returns).  Steps of different threads interleave freely.                *)
(***************************************************************************)
EXTENDS Integers, Sequences, FiniteSets, TLC

\* ---------------------------------------------------------------- bounds
NThreads == 2
MaxShared == 2
MaxOps == 3
MaxDepth == 2

\* ------------------------------------------------------------- constants
\* A threshold no run of these sizes reaches.
THREAD_RNG_RESEED_THRESHOLD_1M == 1024 * 1024

\* A threshold of two 32-bit words.
THREAD_RNG_RESEED_THRESHOLD_words == 2 * 4

\* Half the threshold.
THREAD_RNG_RESEED_THRESHOLD_32k == 1024 * 32

\* const THREAD_RNG_RESEED_THRESHOLD: u64 = 1024 * 64;
THREAD_RNG_RESEED_THRESHOLD == 1024 * 64

Threads == 1..NThreads

\* How a handle was obtained: thread_rng(), ThreadRng::default(); both are
\* Copy, and a copy is indistinguishable from its original.
Handles == {"thread_rng", "default"}

\* The four methods of impl RngCore for ThreadRng.
Ops == {"next_u32", "next_u64", "fill_bytes", "try_fill_bytes"}

\* Lengths of the caller's destination buffer for the two fill methods.
DestLens == {16, 65535, 65536, 65537}

\* The 16-byte buffer alone: what the runs of several threads fill, and what
\* a destructor fills when it uses a fill method.
ShortLens == {16}

\* Bytes a call asks the wrapper for: 4 and 8 for the word methods, the
\* length of dest for the fill methods.
BytesOf(op, n) ==
    CASE op = "next_u32" -> 4
      [] op = "next_u64" -> 8
      [] OTHER -> n

\* The buffer lengths to try with a method: the word methods take no buffer.
Lens(op, ls) == IF op \in {"next_u32", "next_u64"} THEN {0} ELSE ls

\* A request to OsRng, the k-th of thread t: it fails, or it yields fresh
\* entropy, told apart from all other entropy by who asked and when.
NoSeed == <<0, 0>>
OsRng(t, k) == {[ok |-> FALSE, seed |-> NoSeed], [ok |-> TRUE, seed |-> <<t, k>>]}

VARIABLES
    guarded,   \* the build's thread-local storage refuses a destroyed slot
    pc,        \* pc[t]: "run", "teardown", "done" or "crashed"
    held,      \* held[t]: the handle thread t keeps in a local variable, or "none"
    slot,      \* slot[k]: THREAD_RNG_KEY's slot: state, wrapper, instances made
    zombie,    \* zombie[t]: the ZOMBIE slot: "Uninit", "Alive", "Running", "Destroyed"
    stack,     \* stack[t]: the generation calls in flight on thread t
    lens,      \* the buffer lengths the thread bodies use
    fuel,      \* steps the thread bodies may still take, all threads together
    drawn,     \* drawn[t]: requests thread t has made to OsRng
    via,       \* via[t]: handle and end of the output of t's latest successful call
    last       \* what the latest finished call gave its caller, and on which thread

vars == <<guarded, pc, held, slot, zombie, stack, lens, fuel, drawn, via, last>>

\* --------------------------------------------------------- external types
\* Core::from_rng(OsRng) on success: a Core seeded with the entropy drawn.
CoreFromRng(e) == [seed |-> e.seed, pos |-> 0]

\* ReseedingRng::new(r, threshold, OsRng): a fresh wrapper, nothing generated.
ReseedingRngNew(r, threshold) == [core |-> r, bytes |-> 0, threshold |-> threshold]

NoRng == [core |-> [seed |-> NoSeed, pos |-> 0], bytes |-> 0, threshold |-> 0]
NoOut == [seed |-> NoSeed, pos |-> 0, n |-> 0]

\* The wrapper serving n bytes, e being what OsRng answers if it is asked.
\* With the budget used up it first reseeds the Core and restarts the count;
\* a failed reseed is a failed generation and leaves the wrapper as it was.
ReseedingRngGenerate(w, n, e) ==
    IF w.bytes >= w.threshold
    THEN IF e.ok
         THEN [ok |-> TRUE, reseeds |-> 1, asked |-> 1,
               w |-> [w EXCEPT !.core = [seed |-> e.seed, pos |-> n], !.bytes = n],
               out |-> [seed |-> e.seed, pos |-> 0, n |-> n]]
         ELSE [ok |-> FALSE, reseeds |-> 0, asked |-> 1, w |-> w, out |-> NoOut]
    ELSE [ok |-> TRUE, reseeds |-> 0, asked |-> 0,
          w |-> [w EXCEPT !.core.pos = @ + n, !.bytes = @ + n],
          out |-> [seed |-> w.core.seed, pos |-> w.core.pos, n |-> n]]

\* ------------------------------------------------------- the thread-local
\* A handle that caches a pointer to the wrapper, taken at construction.
thread_rng_cached == [opaque |-> "THREAD_RNG_KEY.with(|t| t.get())"]

\* thread_rng() and ThreadRng::default(): the handle is a marker without data.
thread_rng == [opaque |-> "PhantomData"]

\* A slot shared by all threads, as a plain static would be.
KeyOf_static(t, h) == 1

\* A wrapper of its own for the handles made by ThreadRng::default().
KeyOf_perHandle(t, h) == IF h = "default" THEN (t % NThreads) + 1 ELSE t

\* thread_local!(static THREAD_RNG_KEY ...): the slot a call made on thread t
\* through handle h works on. The handle holds nothing that could select one.
KeyOf(t, h) == t

\* An initializer that goes on with an unseeded Core when OsRng fails.
THREAD_RNG_KEY_init_unseeded(e) ==
    [panic |-> FALSE,
     rng |-> [core |-> [seed |-> e.seed, pos |-> 0], bytes |-> 0,
              threshold |-> 1024 * 64]]

\* The initializer of THREAD_RNG_KEY, e being OsRng's answer to from_rng.
THREAD_RNG_KEY_init(e) ==
    IF e.ok
    THEN [panic |-> FALSE,
          rng |-> ReseedingRngNew(CoreFromRng(e), THREAD_RNG_RESEED_THRESHOLD)]
    ELSE [panic |-> TRUE, rng |-> NoRng]

EmptySlot == [state |-> "Uninit", rng |-> NoRng, made |-> 0]

\* A lookup that trusts a slot once initialized, as a handle keeping a raw
\* pointer to the wrapper would.
try_with_stale(s) == IF s.made = 0 THEN "Init" ELSE "Ok"

\* A lookup that initializes a destroyed slot anew.
try_with_revive(s) == IF s.state = "Alive" THEN "Ok" ELSE "Init"

\* A lookup that runs the initializer on every access, caching nothing.
try_with_fresh(s) == IF s.state = "Destroyed" THEN "AccessError" ELSE "Init"

\* LocalKey::try_with on slot s: the value is there ("Ok"), the initializer
\* has to run first ("Init"), or the slot was destroyed ("AccessError").
try_with(s) ==
    CASE s.state = "Alive" -> "Ok"
      [] s.state = "Uninit" -> "Init"
      [] OTHER -> "AccessError"

\* The slot's destructor at thread exit. Thread-local storage that guards
\* destroyed slots keeps the slot marked; storage built on OS keys resets the
\* key, and a later access initializes the slot again.
destroy_value(s, g) ==
    [s EXCEPT !.state = IF g THEN "Destroyed" ELSE "Uninit", !.rng = NoRng]

\* A closure that goes through the handle again.
ClosureCallee_handle == "handle"

\* What the closure handed to with/try_with calls: the wrapper behind the
\* UnsafeCell, (*rng.get()).next_u32() and so on, never the handle itself.
ClosureCallee == "wrapper"

\* try_fill_bytes built on LocalKey::with like the other three.
MethodResult_with(op, lookupOk, genOk) ==
    IF ~lookupOk THEN "panic_access"
    ELSE IF genOk THEN "ok"
    ELSE IF op = "try_fill_bytes" THEN "err_gen" ELSE "panic_gen"

\* The word and fill methods falling back to a default value when the slot
\* cannot be accessed.
MethodResult_default(op, lookupOk, genOk) ==
    IF ~lookupOk THEN (IF op = "try_fill_bytes" THEN "err_access" ELSE "ok")
    ELSE IF genOk THEN "ok"
    ELSE IF op = "try_fill_bytes" THEN "err_gen" ELSE "panic_gen"

\* The wrapper's result dropped once the lookup has succeeded.
MethodResult_ignore(op, lookupOk, genOk) ==
    IF ~lookupOk
    THEN (IF op = "try_fill_bytes" THEN "err_access" ELSE "panic_access")
    ELSE "ok"

\* What a method gives its caller. next_u32, next_u64 and fill_bytes use
\* LocalKey::with, which panics on an AccessError, and pass on whatever the
\* wrapper does; try_fill_bytes maps the AccessError into an Error and
\* returns the wrapper's own Result otherwise.
MethodResult(op, lookupOk, genOk) ==
    IF op = "try_fill_bytes"
    THEN (IF ~lookupOk THEN "err_access" ELSE IF genOk THEN "ok" ELSE "err_gen")
    ELSE (IF ~lookupOk THEN "panic_access" ELSE IF genOk THEN "ok" ELSE "panic_gen")

Panics == {"panic_init", "panic_access", "panic_gen"}

\* try_fill_bytes turning the initializer's failure into an Err.
InitFailure_err(op) == IF op = "try_fill_bytes" THEN "err_init" ELSE "panic_init"

\* What a method's caller gets when the initializer fails inside with /
\* try_with: the panic! of the initializer unwinds through both, try_with
\* turning only an AccessError into an Err.
InitFailure(op) == "panic_init"

NoVia == [h |-> "none", seed |-> NoSeed, end |-> 0]

NoResult ==
    [t |-> 0, op |-> "none", h |-> "none", origin |-> "none", lookup |-> "none",
     osrng |-> "unasked", outcome |-> "none", n |-> 0, filled |-> 0,
     before |-> 0, after |-> 0, reseeds |-> 0, out |-> NoOut, prev |-> NoVia]

Frame(op, h, n, origin) ==
    [op |-> op, h |-> h, n |-> BytesOf(op, n), phase |-> "lookup",
     found |-> "none", origin |-> origin]

Top(t) == stack[t][Len(stack[t])]

\* ------------------------------------------------------------------ Init
InitRest ==
    /\ guarded \in BOOLEAN
    /\ held = [t \in Threads |-> "none"]
    /\ slot = [t \in Threads |-> EmptySlot]
    /\ zombie = [t \in Threads |-> "Uninit"]
    /\ stack = [t \in Threads |-> <<>>]
    /\ drawn = [t \in Threads |-> 0]
    /\ via = [t \in Threads |-> NoVia]
    /\ last = NoResult

\* Every thread runs its body; together the bodies take MaxShared steps,
\* filling short buffers.
Init ==
    /\ pc = [t \in Threads |-> "run"]
    /\ lens = ShortLens
    /\ fuel = MaxShared
    /\ InitRest

\* One thread runs its body, for MaxOps steps and with buffers up to the
\* reseeding threshold and beyond; the others have ended.
InitOne ==
    /\ pc = [t \in Threads |-> IF t = 1 THEN "run" ELSE "done"]
    /\ lens = DestLens
    /\ fuel = MaxOps
    /\ InitRest

\* --------------------------------------------------------------- actions
\* The call f of thread t ends with res: it returns to its caller, or its
\* panic unwinds the thread. A panic in the thread body starts the thread's
\* teardown; a panic inside a thread-local destructor ends the thread there.
Finish(t, f, res) ==
    LET panics == res.outcome \in Panics
    IN  /\ last' = res
        /\ stack' = [stack EXCEPT ![t] =
                        IF panics THEN <<>> ELSE SubSeq(@, 1, Len(@) - 1)]
        /\ pc' = [pc EXCEPT ![t] =
                        IF ~panics THEN @
                        ELSE IF stack[t][1].origin = "drop" THEN "crashed"
                        ELSE "teardown"]
        /\ zombie' = [zombie EXCEPT ![t] =
                        IF ~panics /\ Len(stack[t]) = 1 /\ f.origin = "drop"
                        THEN "Destroyed" ELSE @]

\* let r = thread_rng() / ThreadRng::default() in the thread body.
MakeHandle(t, h) ==
    /\ pc[t] = "run" /\ stack[t] = <<>>
    /\ fuel > 0
    /\ held' = [held EXCEPT ![t] = h]
    /\ fuel' = fuel - 1
    /\ IF thread_rng.opaque = "PhantomData"
       THEN UNCHANGED <<slot, drawn>>
       ELSE IF try_with(slot[t]) = "Init"
            THEN /\ drawn' = [drawn EXCEPT ![t] = @ + 1]
                 /\ slot' = [slot EXCEPT ![t] =
                        [state |-> "Alive",
                         rng |-> THREAD_RNG_KEY_init(
                                    [ok |-> TRUE, seed |-> <<t, drawn[t] + 1>>]).rng,
                         made |-> @.made + 1]]
            ELSE UNCHANGED <<slot, drawn>>
    /\ UNCHANGED <<guarded, pc, zombie, stack, lens, via, last>>

\* ZOMBIE.with(|_| {}) in the thread body: Zombie(crate::thread_rng()) is built.
TouchZombie(t) ==
    /\ pc[t] = "run" /\ stack[t] = <<>>
    /\ fuel > 0
    /\ zombie[t] = "Uninit"
    /\ zombie' = [zombie EXCEPT ![t] = "Alive"]
    /\ fuel' = fuel - 1
    /\ UNCHANGED <<guarded, pc, held, slot, stack, lens, drawn, via, last>>

\* The thread body enters one of the four methods through a handle: the one
\* it keeps, a copy of it, or one made on the spot, thread_rng().next_u32().
Call(t, h, op, n) ==
    /\ pc[t] = "run" /\ stack[t] = <<>>
    /\ fuel > 0
    /\ stack' = [stack EXCEPT ![t] = <<Frame(op, h, n, "body")>>]
    /\ fuel' = fuel - 1
    /\ UNCHANGED <<guarded, pc, held, slot, zombie, lens, drawn, via, last>>

\* THREAD_RNG_KEY.with / try_with up to the closure: the slot is located and,
\* on its first access, initialized.
Lookup(t) ==
    /\ stack[t] # <<>>
    /\ Top(t).phase = "lookup"
    /\ LET f == Top(t)
           k == KeyOf(t, f.h)
           a == try_with(slot[k])
           res == [NoResult EXCEPT !.t = t, !.op = f.op, !.h = f.h,
                                   !.origin = f.origin, !.n = f.n, !.prev = via[t]]
           enter(found) == [stack EXCEPT ![t][Len(stack[t])].phase = "closure",
                                         ![t][Len(stack[t])].found = found]
       IN  CASE a = "Ok" ->
                  /\ stack' = enter("Ok")
                  /\ UNCHANGED <<pc, slot, zombie, drawn, last>>
             [] a = "Init" ->
                  \E e \in OsRng(t, drawn[t] + 1) :
                     LET r == THREAD_RNG_KEY_init(e)
                     IN  /\ drawn' = [drawn EXCEPT ![t] = @ + 1]
                         /\ IF r.panic
                            THEN /\ Finish(t, f, [res EXCEPT !.lookup = "Init",
                                                             !.osrng = "failed",
                                                             !.outcome = InitFailure(f.op)])
                                 /\ UNCHANGED slot
                            ELSE /\ slot' = [slot EXCEPT ![k] =
                                       [state |-> "Alive", rng |-> r.rng,
                                        made |-> @.made + 1]]
                                 /\ stack' = enter("Init")
                                 /\ UNCHANGED <<pc, zombie, last>>
             [] OTHER ->
                  /\ Finish(t, f, [res EXCEPT !.lookup = "AccessError",
                                              !.outcome = MethodResult(f.op, FALSE, FALSE)])
                  /\ UNCHANGED <<slot, drawn>>
    /\ UNCHANGED <<guarded, held, lens, fuel, via>>

\* The closure runs on the wrapper and the method returns what it gives.
Closure(t) ==
    /\ stack[t] # <<>>
    /\ Top(t).phase = "closure"
    /\ LET f == Top(t)
           k == KeyOf(t, f.h)
       IN  IF ClosureCallee = "handle"
           THEN /\ Len(stack[t]) < MaxDepth
                /\ stack' = [stack EXCEPT ![t] = Append(@, Frame(f.op, f.h, f.n, f.origin))]
                /\ UNCHANGED <<pc, slot, zombie, drawn, via, last>>
           ELSE \E e \in OsRng(t, drawn[t] + 1) :
                   LET w == slot[k].rng
                       r == ReseedingRngGenerate(w, f.n, e)
                   IN  /\ slot' = [slot EXCEPT ![k].rng = r.w]
                       /\ drawn' = [drawn EXCEPT ![t] = @ + r.asked]
                       /\ via' = [via EXCEPT ![t] =
                              IF r.ok THEN [h |-> f.h, seed |-> r.out.seed,
                                            end |-> r.out.pos + r.out.n]
                              ELSE @]
                       /\ Finish(t, f,
                              [t |-> t, op |-> f.op, h |-> f.h, origin |-> f.origin,
                               lookup |-> f.found,
                               osrng |-> IF r.asked = 0 THEN "unasked"
                                         ELSE IF e.ok THEN "ok" ELSE "failed",
                               outcome |-> MethodResult(f.op, TRUE, r.ok),
                               n |-> f.n, filled |-> r.out.n,
                               before |-> w.bytes, after |-> r.w.bytes,
                               reseeds |-> r.reseeds, out |-> r.out, prev |-> via[t]])
    /\ UNCHANGED <<guarded, held, lens, fuel>>

\* The closure of the spawned thread returns: the thread starts its teardown.
BodyReturn(t) ==
    /\ pc[t] = "run" /\ stack[t] = <<>>
    /\ fuel > 0
    /\ pc' = [pc EXCEPT ![t] = "teardown"]
    /\ fuel' = fuel - 1
    /\ UNCHANGED <<guarded, held, slot, zombie, stack, lens, drawn, via, last>>

\* Teardown runs ZOMBIE's destructor: Zombie::drop calls a generation method
\* on the handle it holds, made by thread_rng().
DropZombie(t, op, n) ==
    /\ pc[t] = "teardown" /\ stack[t] = <<>>
    /\ zombie[t] = "Alive"
    /\ zombie' = [zombie EXCEPT ![t] = "Running"]
    /\ stack' = [stack EXCEPT ![t] = <<Frame(op, "thread_rng", n, "drop")>>]
    /\ UNCHANGED <<guarded, pc, held, slot, lens, fuel, drawn, via, last>>

\* Teardown runs the destructor of THREAD_RNG_KEY's slot.
DestroyRng(t) ==
    /\ pc[t] = "teardown" /\ stack[t] = <<>>
    /\ zombie[t] # "Running"
    /\ slot[t].state = "Alive"
    /\ slot' = [slot EXCEPT ![t] = destroy_value(@, guarded)]
    /\ UNCHANGED <<guarded, pc, held, zombie, stack, lens, fuel, drawn, via, last>>

\* Every destructor has run: the thread is gone.
Exit(t) ==
    /\ pc[t] = "teardown" /\ stack[t] = <<>>
    /\ zombie[t] \in {"Uninit", "Destroyed"}
    /\ slot[t].state # "Alive"
    /\ pc' = [pc EXCEPT ![t] = "done"]
    /\ UNCHANGED <<guarded, held, slot, zombie, stack, lens, fuel, drawn, via, last>>

Next ==
    \E t \in Threads :
        \/ \E h \in Handles : MakeHandle(t, h)
        \/ TouchZombie(t)
        \/ \E h \in Handles, op \in Ops : \E n \in Lens(op, lens) : Call(t, h, op, n)
        \/ Lookup(t)
        \/ Closure(t)
        \/ BodyReturn(t)
        \/ \E op \in Ops : \E n \in Lens(op, ShortLens) : DropZombie(t, op, n)
        \/ DestroyRng(t)
        \/ Exit(t)

\* All threads, short runs.
Spec == Init /\ [][Next]_vars

\* One thread, longer runs, long buffers.
SpecOne == InitOne /\ [][Next]_vars

\* One thread as in SpecOne; a method that has been entered runs to its end:
\* the calls are synchronous, on the stack of a thread that keeps running.
SpecLive ==
    /\ InitOne
    /\ [][Next]_vars
    /\ \A t \in Threads : WF_vars(Lookup(t)) /\ WF_vars(Closure(t))

\* All threads as in Spec; thread 1 keeps running a method it has entered,
\* the other threads may stop anywhere and for good.
SpecAlone ==
    /\ Init
    /\ [][Next]_vars
    /\ WF_vars(Lookup(1)) /\ WF_vars(Closure(1))

\* ------------------------------------------------------------ properties
\* A call that has entered its closure works on its thread's live wrapper.
NoUseAfterDestroy ==
    \A t \in Threads : \A i \in DOMAIN stack[t] :
        stack[t][i].phase = "closure" => slot[t].state = "Alive"

C2_NoReentrancy ==
    \A t \in Threads :
        /\ Len(stack[t]) <= 1
        /\ Cardinality({i \in DOMAIN stack[t] : stack[t][i].phase = "closure"}) <= 1

\* A call holds the wrapper and is about to reseed it.
C2_Witness ==
    \E t \in Threads :
        /\ Len(stack[t]) = 1
        /\ Top(t).phase = "closure"
        /\ slot[t].rng.bytes >= 65536

\* C3: a thread's wrapper exists only through that thread's own first call,
\* is seeded with entropy that thread drew, and between calls stands exactly
\* where that thread's own latest successful call left it: no other thread's
\* call creates, reads or advances it.
C3_Isolation ==
    \A t \in Threads :
        /\ slot[t].made > 0 => drawn[t] > 0
        /\ slot[t].state = "Alive" => slot[t].rng.core.seed[1] = t
        /\ (slot[t].state = "Alive" /\ stack[t] = <<>>) =>
              /\ via[t].h # "none"
              /\ slot[t].rng.core = [seed |-> via[t].seed, pos |-> via[t].end]
              /\ slot[t].rng.bytes = via[t].end

\* Two threads have generated, each from its own wrapper.
C3_Witness ==
    /\ \A t \in {1, 2} : slot[t].state = "Alive" /\ stack[t] = <<>>
    /\ slot[1].rng.core.seed # slot[2].rng.core.seed
    /\ slot[1].rng.core.pos # slot[2].rng.core.pos

\* What holds of thread t's wrapper under either reading of C4: output comes
\* only after the wrapper's creation, the wrapper stays alive as long as the
\* thread body runs, and a call in its closure has a created wrapper.
C4_Common(t) ==
    /\ (via[t].h # "none" \/ (last.t = t /\ last.outcome = "ok")) => slot[t].made >= 1
    /\ (pc[t] = "run" /\ slot[t].made >= 1) => slot[t].state = "Alive"
    /\ \A i \in DOMAIN stack[t] :
          stack[t][i].phase = "closure" => slot[t].state = "Alive" /\ slot[t].made >= 1

C5_Reseed ==
    last.lookup \in {"Ok", "Init"} /\ last.outcome # "panic_init" =>
        /\ last.before >= 65536 =>
              /\ last.osrng # "unasked"
              /\ last.outcome = "ok" =>
                    /\ last.reseeds = 1
                    /\ last.osrng = "ok"
                    /\ last.out.pos = 0
                    /\ last.out.seed \notin {NoSeed, last.prev.seed}
                    /\ last.after = last.n
              /\ last.outcome # "ok" => last.reseeds = 0 /\ last.filled = 0
        /\ last.before < 65536 =>
              /\ last.reseeds = 0
              /\ last.osrng = "unasked"
              /\ last.outcome = "ok"
              /\ last.after = last.before + last.n

\* A call found exactly 65536 bytes generated and reseeded.
C5_Witness ==
    /\ last.before = 65536
    /\ last.reseeds = 1
    /\ last.outcome = "ok"

\* C6: try_fill_bytes returns Ok exactly when the lookup and the generation
\* both succeeded, the buffer then being filled whole; it returns the lookup's
\* error, without panicking, exactly when the slot is destroyed, and the
\* generation's error exactly when the wrapper failed: two different errors.
C6_TryFill ==
    last.op = "try_fill_bytes" =>
        /\ last.outcome \in {"ok", "err_access", "err_gen", "panic_init"}
        /\ last.outcome = "ok" <=> (last.lookup \in {"Ok", "Init"} /\ last.osrng # "failed")
        /\ last.outcome = "ok" => last.filled = last.n
        /\ last.outcome = "err_access" <=> last.lookup = "AccessError"
        /\ last.outcome = "err_access" => last.filled = 0 /\ pc[last.t] # "crashed"
        /\ last.outcome = "err_gen" <=> (last.lookup = "Ok" /\ last.osrng = "failed")

\* try_fill_bytes, called by a destructor, returned the lookup's error.
C6_Witness ==
    /\ last.op = "try_fill_bytes"
    /\ last.outcome = "err_access"

\* C7: next_u32, next_u64 and fill_bytes panic when the slot is destroyed,
\* giving their caller nothing, and return only after the lookup and the
\* generation both succeeded, with all the bytes asked for.
C7_FailLoud ==
    last.op \in {"next_u32", "next_u64", "fill_bytes"} =>
        /\ last.lookup = "AccessError" =>
              /\ last.outcome = "panic_access"
              /\ last.filled = 0 /\ last.out = NoOut
              /\ pc[last.t] # "run" /\ stack[last.t] = <<>>
        /\ last.outcome = "ok" =>
              /\ last.lookup \in {"Ok", "Init"}
              /\ last.osrng # "failed"
              /\ last.filled = last.n
        /\ last.outcome \in Panics \cup {"ok"}

\* fill_bytes, called by a destructor, panicked on the destroyed slot.
C7_Witness ==
    /\ last.op = "fill_bytes"
    /\ last.lookup = "AccessError"
    /\ last.outcome = "panic_access"

\* C8: a wrapper in a slot is seeded with entropy OsRng supplied; while all
\* of a thread's seed attempts have failed the thread has no wrapper, no call
\* of it is in its closure and its body has stopped; and the call whose seed
\* attempt fails panics in the initializer with no output and stores nothing.
C8_InitFailure ==
    /\ \A t \in Threads :
          /\ slot[t].state = "Alive" => slot[t].rng.core.seed # NoSeed
          /\ (drawn[t] >= 1 /\ slot[t].made = 0) =>
                /\ slot[t].state = "Uninit"
                /\ pc[t] # "run"
                /\ \A i \in DOMAIN stack[t] : stack[t][i].phase # "closure"
    /\ last.outcome = "panic_init" =>
          /\ last.lookup = "Init" /\ last.osrng = "failed"
          /\ last.filled = 0 /\ last.out = NoOut
          /\ stack[last.t] = <<>> => slot[last.t].state # "Alive"

\* The first call of a thread body asked OsRng for the first seed and failed.
C8_Witness ==
    /\ last.outcome = "panic_init"
    /\ last.origin = "body"
    /\ drawn[last.t] = 1
    /\ slot[last.t].made = 0

\* C9: a call whose reseed fails because OsRng fails gives its caller the
\* failure, an Err from try_fill_bytes and a panic from the other methods,
\* and no output.
C9_ReseedFailure ==
    (last.lookup = "Ok" /\ last.osrng = "failed") =>
        /\ last.before >= 65536
        /\ last.outcome = IF last.op = "try_fill_bytes" THEN "err_gen" ELSE "panic_gen"
        /\ last.filled = 0 /\ last.out = NoOut /\ last.reseeds = 0
        /\ last.op # "try_fill_bytes" => pc[last.t] # "run"

\* try_fill_bytes hit the reseed boundary with OsRng failing.
C9_Witness ==
    /\ last.op = "try_fill_bytes"
    /\ last.outcome = "err_gen"
    /\ last.before >= 65536

\* C10: whichever handle a call goes through, it works on its thread's one
\* cached wrapper: after it the wrapper stands at the end of its output, and
\* its output continues, in the same stream, where the thread's previous
\* successful call ended, whatever handle that one went through.
C10_SharedWrapper ==
    /\ (last.outcome = "ok" /\ stack[last.t] = <<>>) =>
          /\ pc[last.t] = "run" => slot[last.t].state = "Alive"
          /\ slot[last.t].state = "Alive" =>
                /\ slot[last.t].rng.core =
                      [seed |-> last.out.seed, pos |-> last.out.pos + last.n]
                /\ slot[last.t].rng.bytes = last.after
    /\ (last.outcome = "ok" /\ last.lookup = "Ok" /\ last.reseeds = 0
            /\ last.prev.h # "none") =>
          /\ last.out.seed = last.prev.seed
          /\ last.out.pos = last.prev.end

\* A call through a default() handle continued the stream a call through a
\* thread_rng() handle had begun.
C10_Witness ==
    /\ last.h = "default"
    /\ last.prev.h = "thread_rng"
    /\ last.outcome = "ok"
    /\ last.lookup = "Ok"
    /\ last.out.pos = last.prev.end
    /\ last.out.pos > 0

\* C11: constructing a handle, by thread_rng() or ThreadRng::default(),
\* succeeds and leaves the calling thread's slot as it was: no wrapper is
\* created, no entropy is requested, no byte is counted; a wrapper is created
\* and entropy is requested only by a thread with a generation call in
\* progress, so a thread that only constructs handles never has a wrapper.
C11_HandleFrame ==
    [][/\ \A t \in Threads, h \in Handles :
             MakeHandle(t, h) =>
                /\ held'[t] = h
                /\ UNCHANGED <<slot, drawn, via, stack, pc, last>>
       /\ \A t \in Threads :
             (slot'[t].made # slot[t].made \/ drawn'[t] # drawn[t]) =>
                stack[t] # <<>>]_vars

\* A thread made a handle, made no call, and ended without a wrapper.
C11_Witness ==
    \E t \in Threads :
        /\ held[t] # "none"
        /\ pc[t] = "done"
        /\ slot[t] = EmptySlot
        /\ drawn[t] = 0

\* C12: with OsRng working, a call of next_u32, next_u64 or fill_bytes in the
\* thread body that keeps the bytes generated since the last (re)seed below
\* 65536 succeeds, gives all its bytes and triggers no reseed and no request
\* to OsRng; so does every call of a sequence of such calls, as a 32-bit
\* word, a 64-bit word and a 16-byte fill through one handle.
C12_BelowThreshold ==
    (/\ last.op \in {"next_u32", "next_u64", "fill_bytes"}
     /\ last.origin = "body"
     /\ last.osrng # "failed"
     /\ last.before + last.n < 65536) =>
        /\ last.outcome = "ok"
        /\ last.lookup \in {"Ok", "Init"}
        /\ last.reseeds = 0
        /\ last.osrng = "unasked"
        /\ last.filled = last.n
        /\ last.after = last.before + last.n
        /\ last.out.seed = (IF last.lookup = "Ok" THEN last.prev.seed ELSE last.out.seed)
        /\ last.out.pos = last.before

\* A 16-byte fill followed two words through the same handle; the thread has
\* asked OsRng once, for the initial seed.
C12_Witness ==
    /\ last.op = "fill_bytes" /\ last.n = 16
    /\ last.outcome = "ok"
    /\ last.before = 4 + 8
    /\ last.after = 4 + 8 + 16
    /\ last.h = last.prev.h
    /\ drawn[last.t] = 1
    /\ slot[last.t].made = 1

\* A call is in progress on a live wrapper of thread t that has generated
\* 65536 bytes or more since its last (re)seed.
C13_Due(t) ==
    /\ stack[t] # <<>>
    /\ slot[t].state = "Alive"
    /\ slot[t].rng.bytes >= 65536

\* C13: the reseed cycle has no terminal state. Whenever a thread issues a
\* call on a wrapper whose byte count has reached 65536, whether the wrapper
\* was never reseeded or was reseeded before, the call ends, and with OsRng
\* succeeding it ends having reseeded, the byte counter restarted from zero
\* and holding this call's bytes; the wrapper then serves the next call.
C13_ReseedCycle ==
    \A t \in Threads :
        C13_Due(t) ~>
            (/\ stack[t] = <<>>
             /\ last.t = t
             /\ last.before >= 65536
             /\ \/ last.osrng = "failed"
                \/ /\ last.reseeds = 1
                   /\ last.outcome = "ok"
                   /\ last.after = last.n
                   /\ slot[t].state = "Alive" => slot[t].rng.bytes = last.n)

\* A wrapper that had already been reseeded once reached the threshold again
\* and was reseeded a second time.
C13_Witness ==
    /\ last.reseeds = 1
    /\ last.before >= 65536
    /\ last.prev.seed = <<last.t, 2>>
    /\ last.out.seed = <<last.t, 3>>
    /\ slot[last.t].made = 1

\* What belongs to thread t.
C14_Own(t) == <<pc[t], held[t], slot[t], zombie[t], stack[t], drawn[t], via[t]>>

\* C14: no generation call waits on another thread. Wherever the other
\* threads stand, a thread with a call in progress can take the call's next
\* step; while the call is in progress nothing of the thread changes but by
\* the call's own steps; and the call of a thread that keeps running ends,
\* whether the other threads run or have stopped.
C14_NoWaiting ==
    /\ [](\A t \in Threads : stack[t] # <<>> => ENABLED (Lookup(t) \/ Closure(t)))
    /\ [][\A t \in Threads :
             (stack[t] # <<>> /\ C14_Own(t)' # C14_Own(t)) =>
                (Lookup(t) \/ Closure(t))]_vars
    /\ (stack[1] # <<>>) ~> (stack[1] = <<>> /\ last.t = 1)

\* Thread 1 has completed a call while thread 2 stands in the middle of one.
C14_Witness ==
    /\ last.t = 1 /\ last.outcome = "ok"
    /\ stack[1] = <<>>
    /\ stack[2] # <<>>
    /\ Top(2).phase = "closure"

\* C15: in a thread whose body made handles and touched ZOMBIE but finished
\* no generation call (the body of test_lifetime), no wrapper exists and no
\* entropy has been requested when the teardown starts and when Zombie::drop
\* enters its call; that call is the first access to the thread's slot: its
\* lookup runs the initializer, inside the destructor, and if it succeeds
\* the wrapper it leaves is the thread's first.
C15_LazyInDestructor ==
    /\ \A t \in Threads :
          (pc[t] = "teardown" /\ last = NoResult) =>
             /\ (stack[t] = <<>> \/ Top(t).phase = "lookup") =>
                   slot[t] = EmptySlot /\ drawn[t] = 0
             /\ stack[t] # <<>> =>
                   /\ Top(t).origin = "drop" /\ zombie[t] = "Running"
                   /\ Top(t).phase = "closure" =>
                         /\ Top(t).found = "Init"
                         /\ slot[t].made = 1 /\ drawn[t] = 1
    /\ (last.origin = "drop" /\ last.prev.h = "none" /\ drawn[last.t] = 1) =>
          /\ last.lookup = "Init"
          /\ last.outcome = "ok" =>
                /\ slot[last.t].made = 1
                /\ last.out.seed = <<last.t, 1>> /\ last.out.pos = 0

\* The thread made a handle, touched ZOMBIE and returned; Zombie::drop then
\* made the thread's first call, which created the wrapper.
C15_Witness ==
    /\ held[1] = "thread_rng"
    /\ last.t = 1 /\ last.origin = "drop"
    /\ last.lookup = "Init" /\ last.outcome = "ok"
    /\ slot[1].made = 1
    /\ drawn[1] = 1
    /\ zombie[1] = "Destroyed"

\* C16: when the initializer fails for lack of a seed, the call that ran it
\* panics whatever the method: try_fill_bytes returns no Err for it, gives no
\* byte, and its thread unwinds as from the other three methods. The error
\* values try_fill_bytes does return are the lookup's, for a destroyed slot,
\* and the generation's, for a failed reseed.
C16_InitPanics ==
    /\ (last.lookup = "Init" /\ last.osrng = "failed") =>
          /\ last.outcome = "panic_init"
          /\ last.filled = 0 /\ last.out = NoOut
          /\ pc[last.t] # "run"
          /\ slot[last.t].state = "Alive" => stack[last.t] # <<>>
    /\ last.outcome \notin Panics \cup {"ok", "none"} =>
          /\ last.op = "try_fill_bytes"
          /\ \/ last.outcome = "err_access" /\ last.lookup = "AccessError"
             \/ /\ last.outcome = "err_gen" /\ last.lookup = "Ok"
                /\ last.osrng = "failed" /\ last.before >= 65536

\* try_fill_bytes was a thread's first call, OsRng gave no seed, and the call
\* panicked.
C16_Witness ==
    /\ last.op = "try_fill_bytes"
    /\ last.origin = "body"
    /\ last.outcome = "panic_init"
    /\ drawn[last.t] = 1
    /\ pc[last.t] = "teardown"

\* C17: the step in which try_fill_bytes looks up a destroyed slot changes
\* nothing: the call returns the lookup's error from the lookup itself, its
\* closure not run and no byte given; no wrapper is created, the slot with
\* its core and byte counter stays as it was, and OsRng is not asked.
C17_LookupFailureFrame ==
    [][\A t \in Threads :
          (/\ stack[t] # <<>>
           /\ Top(t).op = "try_fill_bytes"
           /\ Top(t).phase = "lookup"
           /\ slot[t].state = "Destroyed"
           /\ Lookup(t)) =>
              /\ last'.t = t /\ last'.outcome = "err_access"
              /\ last'.filled = 0 /\ last'.out = NoOut
              /\ stack'[t] = SubSeq(stack[t], 1, Len(stack[t]) - 1)
              /\ UNCHANGED <<slot, drawn, via, pc>>]_vars

\* try_fill_bytes returned the lookup's error over the remains of a wrapper
\* that had served the thread body, and the thread ended.
C17_Witness ==
    /\ last.op = "try_fill_bytes"
    /\ last.outcome = "err_access"
    /\ slot[last.t].state = "Destroyed"
    /\ slot[last.t].made = 1
    /\ via[last.t] = last.prev /\ last.prev.h # "none"
    /\ pc[last.t] = "done"

====
